---- MODULE Spec2Model ----
(***************************************************************************)
(* zfs_exporter: the acquisition and aggregation pipeline.                 *)
(*                                                                         *)
(*   pkg/zfs   parsePools, parseDatasets, parseScanStatuses, Client        *)
(*   pkg/host  ServiceChecker.CheckServices                                *)
(*   collector Collector.Collect / fetchOptional                           *)
(*                                                                         *)
(* Go strings and byte slices are sequences of one-character strings, so   *)
(* that trimming, splitting, substring search and the regular expressions  *)
(* are computed on the characters as the Go code computes them.            *)
(***************************************************************************)
EXTENDS Integers, Sequences, FiniteSets, TLC

(***************************************************************************)
(* Bounds of the model.                                                    *)
(***************************************************************************)
\* number of lines of a zpool status text given to parseScanStatuses
MaxScanLines == 4

(***************************************************************************)
(* Characters and string helpers (Go: strings, strconv, regexp).           *)
(***************************************************************************)
NL == "\n"

TAB == "\t"

\* unicode.IsSpace / regexp \s over the characters the model uses
Space == {" ", "\t", "\n", "\r"}

Digit == {"0", "1", "2", "3", "4", "5", "6", "7", "8", "9"}

DigitVal(c) ==
    CASE c = "0" -> 0 [] c = "1" -> 1 [] c = "2" -> 2 [] c = "3" -> 3
      [] c = "4" -> 4 [] c = "5" -> 5 [] c = "6" -> 6 [] c = "7" -> 7
      [] c = "8" -> 8 [] c = "9" -> 9

SetMin(S) == CHOOSE x \in S : \A y \in S : x <= y

SetMax(S) == CHOOSE x \in S : \A y \in S : x >= y

TrimSpace_none(s) == s

\* strings.TrimSpace
TrimSpace(s) ==
    LET keep == {i \in 1..Len(s) : s[i] \notin Space}
    IN  IF keep = {} THEN <<>> ELSE SubSeq(s, SetMin(keep), SetMax(keep))

\* strings.Split(s, sep) / strings.SplitSeq(s, sep) for a one-character sep
Split(s, sep) ==
    LET pos == {i \in 1..Len(s) : s[i] = sep}
        n   == Cardinality(pos)
        P(k) == IF k = 0 THEN 0
                ELSE IF k = n + 1 THEN Len(s) + 1
                ELSE CHOOSE p \in pos : Cardinality({q \in pos : q < p}) = k - 1
    IN  [k \in 1..(n + 1) |-> SubSeq(s, P(k - 1) + 1, P(k) - 1)]

\* the text whose lines are ls (the inverse direction of Split on "\n")
RECURSIVE Join(_, _)
Join(ls, sep) ==
    IF Len(ls) = 0 THEN <<>>
    ELSE IF Len(ls) = 1 THEN ls[1]
    ELSE ls[1] \o <<sep>> \o Join(Tail(ls), sep)

\* p occurs in s at index i
HasPrefixAt(s, i, p) ==
    /\ i >= 1
    /\ i + Len(p) - 1 <= Len(s)
    /\ SubSeq(s, i, i + Len(p) - 1) = p

\* strings.Contains
Contains(s, sub) == \E i \in 1..(Len(s) + 1) : HasPrefixAt(s, i, sub)

\* index of the first character at or after i that is not in class C
\* (Len(s)+1 when there is none): the end of a greedy run C*
RunEnd(s, i, C) ==
    LET stop == {j \in i..Len(s) : s[j] \notin C}
    IN  IF stop = {} THEN Len(s) + 1 ELSE SetMin(stop)

\* index of the first character at or after i that is in class C
NextIn(s, i, C) ==
    LET hit == {j \in i..Len(s) : s[j] \in C}
    IN  IF hit = {} THEN Len(s) + 1 ELSE SetMin(hit)

RECURSIVE Pow10(_)
Pow10(k) == IF k = 0 THEN 1 ELSE 10 * Pow10(k - 1)

\* value of a string of decimal digits
RECURSIVE DigitsVal(_)
DigitsVal(s) ==
    IF Len(s) = 0 THEN 0
    ELSE 10 * DigitsVal(SubSeq(s, 1, Len(s) - 1)) + DigitVal(s[Len(s)])

\* all sequences over S of length at most n
SeqsUpTo(S, n) == UNION {[1..k -> S] : k \in 0..n}

(***************************************************************************)
(* A float64 is modelled as an exact ratio n/d (d > 0), or NaN.            *)
(***************************************************************************)
Ratio(n, d) == [n |-> n, d |-> d]

Zero == Ratio(0, 1)

RatEq(a, b) == a.n * b.d = b.n * a.d

RatLeq(a, b) == a.n * b.d <= b.n * a.d

\* strconv.ParseFloat on the text progressRe captures: digits, optionally a
\* point and more digits.  ok is FALSE where ParseFloat returns an error.
ParseFloat(s) ==
    LET dot   == {i \in 1..Len(s) : s[i] = "."}
        ip    == IF dot = {} THEN s ELSE SubSeq(s, 1, SetMin(dot) - 1)
        fp    == IF dot = {} THEN <<>> ELSE SubSeq(s, SetMin(dot) + 1, Len(s))
        wellFormed ==
            /\ Cardinality(dot) <= 1
            /\ \A i \in 1..Len(s) : s[i] \in Digit \cup {"."}
            /\ Len(ip) + Len(fp) >= 1
    IN  IF wellFormed
        THEN [ok |-> TRUE, v |-> Ratio(DigitsVal(ip \o fp), Pow10(Len(fp)))]
        ELSE [ok |-> FALSE, v |-> Zero]

(***************************************************************************)
(* pkg/zfs/scan.go                                                         *)
(***************************************************************************)
S_pool == <<"p", "o", "o", "l", ":">>

S_scan == <<"s", "c", "a", "n", ":">>

S_scrub == <<"s", "c", "r", "u", "b">>

S_resilver == <<"r", "e", "s", "i", "l", "v", "e", "r">>

S_inProgress == <<" ", "i", "n", " ", "p", "r", "o", "g", "r", "e", "s", "s">>

S_done == <<"d", "o", "n", "e">>

NoMatch == [ok |-> FALSE, g |-> <<>>]

\* poolNameRe = ^\s*pool:\s+(\S+) ; g is submatch 1
poolNameRe(line) ==
    LET i1 == RunEnd(line, 1, Space)
        i2 == i1 + Len(S_pool)
        i3 == RunEnd(line, i2, Space)
        i4 == NextIn(line, i3, Space)
    IN  IF /\ HasPrefixAt(line, i1, S_pool)
           /\ i3 > i2
           /\ i3 <= Len(line)
        THEN [ok |-> TRUE, g |-> SubSeq(line, i3, i4 - 1)]
        ELSE NoMatch

\* scanActiveRe = ^\s*scan:\s+(scrub|resilver) in progress ; g is submatch 1
scanActiveRe(line) ==
    LET i1 == RunEnd(line, 1, Space)
        i2 == i1 + Len(S_scan)
        i3 == RunEnd(line, i2, Space)
    IN  IF HasPrefixAt(line, i1, S_scan) /\ i3 > i2
        THEN IF HasPrefixAt(line, i3, S_scrub \o S_inProgress)
             THEN [ok |-> TRUE, g |-> S_scrub]
             ELSE IF HasPrefixAt(line, i3, S_resilver \o S_inProgress)
             THEN [ok |-> TRUE, g |-> S_resilver]
             ELSE NoMatch
        ELSE NoMatch

\* end (exclusive) of the number of a match of (\d+\.?\d*)%\s+done that
\* starts at index s, or 0 when no match starts there
progressEndAt(line, s) ==
    LET a == RunEnd(line, s, Digit)
        b == IF a <= Len(line) /\ line[a] = "." THEN a + 1 ELSE a
        c == RunEnd(line, b, Digit)
        e == RunEnd(line, c + 1, Space)
    IN  IF /\ a > s
           /\ c <= Len(line) /\ line[c] = "%"
           /\ e > c + 1
           /\ HasPrefixAt(line, e, S_done)
        THEN c
        ELSE 0

\* progressRe = (\d+\.?\d*)%\s+done, leftmost match ; g is submatch 1
progressRe(line) ==
    LET starts == {s \in 1..Len(line) : progressEndAt(line, s) # 0}
    IN  IF starts = {} THEN NoMatch
        ELSE LET s == SetMin(starts)
             IN  [ok |-> TRUE, g |-> SubSeq(line, s, progressEndAt(line, s) - 1)]

\* ScanStatus{Pool: pool}
ScanStatus(pool) ==
    [Pool |-> pool, Scrub |-> FALSE, Resilver |-> FALSE, Progress |-> Zero]

newActiveScan_both(pool, scanType) ==
    [ScanStatus(pool) EXCEPT !.Scrub = TRUE, !.Resilver = TRUE]

newActiveScan(pool, scanType) ==
    IF scanType = S_scrub THEN [ScanStatus(pool) EXCEPT !.Scrub = TRUE]
    ELSE IF scanType = S_resilver THEN [ScanStatus(pool) EXCEPT !.Resilver = TRUE]
    ELSE ScanStatus(pool)

\* the statuses after tryParseProgress(&statuses, currentPool, line)
tryParseProgress(sts, pool, line) ==
    IF Len(sts) = 0 THEN sts
    ELSE LET last == sts[Len(sts)]
             m    == progressRe(line)
             pct  == ParseFloat(m.g)
         IN  IF \/ last.Pool # pool
                \/ (~last.Scrub /\ ~last.Resilver)
                \/ last.Progress.n # 0
             THEN sts
             ELSE IF m.ok /\ pct.ok
             THEN [sts EXCEPT ![Len(sts)].Progress = Ratio(pct.v.n, pct.v.d * 100)]
             ELSE sts

\* one iteration of the loop over the lines (scan.go lines 42-78):
\* st holds the locals statuses, currentPool and scanSeen
scanLoopBody(st, line) ==
    LET m == poolNameRe(line)
        a == scanActiveRe(line)
    IN  IF m.ok
        THEN [statuses    |-> IF st.currentPool # <<>> /\ ~st.scanSeen
                              THEN Append(st.statuses, ScanStatus(st.currentPool))
                              ELSE st.statuses,
              currentPool |-> m.g,
              scanSeen    |-> FALSE]
        ELSE IF st.currentPool = <<>> THEN st
        ELSE IF a.ok
        THEN [st EXCEPT !.scanSeen = TRUE,
                        !.statuses = Append(@, newActiveScan(st.currentPool, a.g))]
        ELSE IF Contains(line, S_scan)
        THEN [st EXCEPT !.scanSeen = TRUE,
                        !.statuses = Append(@, ScanStatus(st.currentPool))]
        ELSE [st EXCEPT !.statuses = tryParseProgress(@, st.currentPool, line)]

scanCloseLast_never(st) == st.statuses

\* after the loop (scan.go lines 80-85): close out the last pool
scanCloseLast(st) ==
    IF st.currentPool # <<>> /\ ~st.scanSeen
    THEN Append(st.statuses, ScanStatus(st.currentPool))
    ELSE st.statuses

ScanLocals0 == [statuses |-> <<>>, currentPool |-> <<>>, scanSeen |-> FALSE]

\* the locals after the loop has consumed the first k lines
RECURSIVE scanAfter(_, _)
scanAfter(lines, k) ==
    IF k = 0 THEN ScanLocals0
    ELSE scanLoopBody(scanAfter(lines, k - 1), lines[k])

\* parseScanStatuses(data) as one call
parseScanStatuses(text) ==
    IF TrimSpace(text) = <<>> THEN <<>>
    ELSE LET lines == Split(text, NL)
         IN  scanCloseLast(scanAfter(lines, Len(lines)))

(***************************************************************************)
(* pkg/zfs: parsePools and parseDatasets.                                  *)
(***************************************************************************)
\* math.NaN()
NaN == Ratio(0, 0)

IsNaN(x) == x.d = 0

\* float64(n) for an unsigned integer n
Float(n) == Ratio(n, 1)

\* strconv.ParseUint(s, 10, 64); the texts of the model stay far below 2^64
ParseUint(s) ==
    IF Len(s) > 0 /\ \A i \in 1..Len(s) : s[i] \in Digit
    THEN [ok |-> TRUE, v |-> DigitsVal(s)]
    ELSE [ok |-> FALSE, v |-> 0]

LowerLetters ==
    <<"a", "b", "c", "d", "e", "f", "g", "h", "i", "j", "k", "l", "m",
      "n", "o", "p", "q", "r", "s", "t", "u", "v", "w", "x", "y", "z">>

UpperLetters ==
    <<"A", "B", "C", "D", "E", "F", "G", "H", "I", "J", "K", "L", "M",
      "N", "O", "P", "Q", "R", "S", "T", "U", "V", "W", "X", "Y", "Z">>

\* the letter of sequence to at the position c has in sequence from
MapLetter(c, from, to) ==
    IF \E k \in 1..26 : from[k] = c
    THEN to[CHOOSE k \in 1..26 : from[k] = c]
    ELSE c

\* strings.ToUpper
ToUpper(s) == [i \in 1..Len(s) |-> MapLetter(s[i], LowerLetters, UpperLetters)]

\* strings.ToLower
ToLower(s) == [i \in 1..Len(s) |-> MapLetter(s[i], UpperLetters, LowerLetters)]

S_dash == <<"-">>

S_on == <<"o", "n">>

S_off == <<"o", "f", "f">>

\* a parse result: the value and whether an error is returned
Ok(v) == [v |-> v, err |-> FALSE]

Err == [v |-> <<>>, err |-> TRUE]

parsePoolFields_allocFreeSwapped(fields) ==
    LET size  == ParseUint(fields[2])
        alloc == ParseUint(fields[3])
        free  == ParseUint(fields[4])
        fragInt == ParseUint(fields[5])
        dedup == ParseFloat(fields[6])
    IN  IF ~size.ok \/ ~alloc.ok \/ ~free.ok \/ ~dedup.ok THEN Err
        ELSE IF fields[5] # S_dash /\ ~fragInt.ok THEN Err
        ELSE Ok([Name          |-> fields[1],
                 Size          |-> size.v,
                 Allocated     |-> free.v,
                 Free          |-> alloc.v,
                 Fragmentation |-> IF fields[5] # S_dash
                                   THEN Ratio(fragInt.v, 100) ELSE NaN,
                 DedupRatio    |-> dedup.v,
                 Health        |-> ToUpper(fields[7]),
                 ReadOnly      |-> fields[8] = S_on])

\* parsePoolFields
parsePoolFields(fields) ==
    LET size  == ParseUint(fields[2])
        alloc == ParseUint(fields[3])
        free  == ParseUint(fields[4])
        fragInt == ParseUint(fields[5])
        dedup == ParseFloat(fields[6])
    IN  IF ~size.ok \/ ~alloc.ok \/ ~free.ok THEN Err
        ELSE IF fields[5] # S_dash /\ ~fragInt.ok THEN Err
        ELSE IF ~dedup.ok THEN Err
        ELSE Ok([Name          |-> fields[1],
                 Size          |-> size.v,
                 Allocated     |-> alloc.v,
                 Free          |-> free.v,
                 Fragmentation |-> IF fields[5] # S_dash
                                   THEN Ratio(fragInt.v, 100) ELSE NaN,
                 DedupRatio    |-> dedup.v,
                 Health        |-> ToUpper(fields[7]),
                 ReadOnly      |-> fields[8] = S_on])

RECURSIVE parsePoolLines_skipBad(_, _, _)
parsePoolLines_skipBad(lines, k, pools) ==
    IF k > Len(lines) THEN Ok(pools)
    ELSE LET fields == Split(lines[k], TAB)
         IN  IF lines[k] = <<>> \/ Len(fields) # 8 \/ parsePoolFields(fields).err
             THEN parsePoolLines_skipBad(lines, k + 1, pools)
             ELSE parsePoolLines_skipBad(lines, k + 1,
                                         Append(pools, parsePoolFields(fields).v))

\* the loop of parsePools at line k, with the pools collected so far
RECURSIVE parsePoolLines(_, _, _)
parsePoolLines(lines, k, pools) ==
    IF k > Len(lines) THEN Ok(pools)
    ELSE IF lines[k] = <<>> THEN parsePoolLines(lines, k + 1, pools)
    ELSE LET fields == Split(lines[k], TAB)
         IN  IF Len(fields) # 8 THEN Err
             ELSE LET pool == parsePoolFields(fields)
                  IN  IF pool.err THEN Err
                      ELSE parsePoolLines(lines, k + 1, Append(pools, pool.v))

\* parsePools(data)
parsePools(text) ==
    LET trimmed == TrimSpace(text)
    IN  IF trimmed = <<>> THEN Ok(<<>>)
        ELSE parsePoolLines(Split(trimmed, NL), 1, <<>>)

\* strings.Cut(name, "/") in extractPool
extractPool_lastSlash(name) ==
    LET slash == {i \in 1..Len(name) : name[i] = "/"}
    IN  IF slash # {} THEN SubSeq(name, 1, SetMax(slash) - 1) ELSE name

extractPool(name) ==
    LET slash == {i \in 1..Len(name) : name[i] = "/"}
    IN  IF slash # {} THEN SubSeq(name, 1, SetMin(slash) - 1) ELSE name

isShareEnabled_ignoreCase(val) == ToLower(val) # S_off /\ val # S_dash

isShareEnabled(val) == val # S_off /\ val # S_dash

\* parseDatasetFields
parseDatasetFields(fields) ==
    LET used  == ParseUint(fields[2])
        avail == ParseUint(fields[3])
        ref   == ParseUint(fields[4])
    IN  IF ~used.ok \/ ~avail.ok \/ ~ref.ok THEN Err
        ELSE Ok([Name       |-> fields[1],
                 Pool       |-> extractPool(fields[1]),
                 Used       |-> used.v,
                 Available  |-> avail.v,
                 Referenced |-> ref.v,
                 Type       |-> fields[5],
                 ShareNFS   |-> isShareEnabled(fields[6]),
                 ShareSMB   |-> isShareEnabled(fields[7])])

\* the loop of parseDatasets at line k, with the datasets collected so far
RECURSIVE parseDatasetLines(_, _, _)
parseDatasetLines(lines, k, datasets) ==
    IF k > Len(lines) THEN Ok(datasets)
    ELSE IF lines[k] = <<>> THEN parseDatasetLines(lines, k + 1, datasets)
    ELSE LET fields == Split(lines[k], TAB)
         IN  IF Len(fields) # 7 THEN Err
             ELSE LET ds == parseDatasetFields(fields)
                  IN  IF ds.err THEN Err
                      ELSE parseDatasetLines(lines, k + 1, Append(datasets, ds.v))

\* parseDatasets(data)
parseDatasets(text) ==
    LET trimmed == TrimSpace(text)
    IN  IF trimmed = <<>> THEN Ok(<<>>)
        ELSE parseDatasetLines(Split(trimmed, NL), 1, <<>>)

(***************************************************************************)
(* State.                                                                  *)
(***************************************************************************)
VARIABLES
    \* parseScanStatuses run line by line
    data,          \* the bytes given to parseScanStatuses
    scanPc,        \* "idle", "call", "loop", "done"
    lineIdx,       \* the next line of the text the loop reads
    statuses,      \* []ScanStatus
    currentPool,
    scanSeen,
    \* the command-execution capability (zfs.Runner)
    now,           \* the clock
    calls,         \* per caller, its invocations of the runner, in order
    inflight,      \* per caller, whether its last invocation has not returned
    \* ServiceChecker.CheckServices
    services,      \* map[string][]string: key -> candidate units
    svcCtx,        \* the context CheckServices was called with
    svcPc,         \* "idle", "range", "units", "show", "isActive", "done"
    keysLeft,      \* keys the range loop has not visited yet
    key,           \* the key being resolved
    unitIdx,       \* position of the candidate being probed
    svcStatuses,   \* []ServiceStatus
    svcRet,        \* what CheckServices returned: ([]ServiceStatus, error)
    \* Collector.Collect
    pc,            \* "idle", "getPools", "wait", "done"
    timeout,       \* c.timeout
    start,         \* time.Now() at the start of Collect
    ctx,           \* the context Collect derives from c.timeout
    ch,            \* the metrics sent on ch, in order
    r,             \* optionalResults: per goroutine its value and error
    gpc,           \* per goroutine of fetchOptional: "idle", "start", "call", "done"
    wg,            \* the counter of the sync.WaitGroup
    warned,        \* the optional sources Collect logged a warning for
    \* parsePools, parseDatasets, parseScanStatuses called on their own
    parseFn,       \* the parser called
    parseData,     \* the bytes it is given
    parsePc,       \* "idle", "call", "done"
    parseRet,      \* what it returned: (records, error)
    parseLog       \* the calls made so far: parser, bytes, result

scanVars == <<data, scanPc, lineIdx, statuses, currentPool, scanSeen>>

runVars == <<now, calls, inflight>>

svcVars == <<services, svcCtx, svcPc, keysLeft, key, unitIdx, svcStatuses, svcRet>>

colVars == <<pc, timeout, start, ctx, ch, r, gpc, wg, warned>>

parseVars == <<parseFn, parseData, parsePc, parseRet, parseLog>>

vars == <<scanVars, runVars, svcVars, colVars, parseVars>>

nonScanVars == <<runVars, svcVars, colVars, parseVars>>

nonSvcVars == <<scanVars, now, colVars, parseVars>>

(***************************************************************************)
(* The command-execution capability: zfs.Runner, bound in production to    *)
(* DefaultRunner (exec.CommandContext(ctx, ...).Output()).  An invocation  *)
(* is in flight from its call to its return; it returns (out, err).  With  *)
(* a context whose deadline has passed the command is not started, or is   *)
(* killed, and the runner returns (nil, err).                              *)
(***************************************************************************)
Procs == {"main", "ds", "scan", "svc"}

\* context.Background()
Background == [has |-> FALSE, at |-> 0]

\* context.WithTimeout: a context that is done from time t on
WithDeadline(t) == [has |-> TRUE, at |-> t]

Expired(cx) == cx.has /\ now >= cx.at

\* runner(ctx, name, sub, ..., unit), made while resolving candidate idx of key k
Call(cx, name, sub, k, idx, unit) ==
    [ctx |-> cx, late |-> Expired(cx), name |-> name, sub |-> sub, key |-> k, idx |-> idx,
     unit |-> unit, done |-> FALSE, out |-> <<>>, err |-> FALSE, cancelled |-> FALSE]

Reply(out, err) == [out |-> out, err |-> err]

\* the runner failed: (nil, err)
Failed == Reply(<<>>, TRUE)

LastCall(p) == calls[p][Len(calls[p])]

\* p's log once its call in flight has returned rep
Returned(p, rep) ==
    [calls[p] EXCEPT ![Len(calls[p])] =
        [@ EXCEPT !.done = TRUE, !.out = rep.out, !.err = rep.err,
                  !.cancelled = Expired(LastCall(p).ctx)]]

runnerReplies_noCancel(cx, replies) == replies

\* what an invocation with context cx may return, replies being what the
\* command itself may produce: exec.CommandContext does not start the command,
\* or kills it, once cx is done, and Output() returns an error
runnerReplies(cx, replies) == IF Expired(cx) THEN {Failed} ELSE replies

RunIdle ==
    /\ now = 0
    /\ calls = [p \in Procs |-> <<>>]
    /\ inflight = [p \in Procs |-> FALSE]

\* the goroutines fetchOptional starts
Fetches == {"ds", "scan", "svc"}

\* the zero value of a slot of optionalResults
NoResult == [v |-> <<>>, err |-> FALSE]

ColIdle ==
    /\ pc = "idle"
    /\ timeout = 1
    /\ start = 0
    /\ ctx = Background
    /\ ch = <<>>
    /\ r = [g \in Fetches |-> NoResult]
    /\ gpc = [g \in Fetches |-> "idle"]
    /\ wg = 0
    /\ warned = {}

ParseIdle ==
    /\ parseFn = ""
    /\ parseData = <<>>
    /\ parsePc = "idle"
    /\ parseRet = NoResult
    /\ parseLog = <<>>

SvcIdle ==
    /\ services = <<>>
    /\ svcCtx = Background
    /\ svcPc = "idle"
    /\ keysLeft = {}
    /\ key = ""
    /\ unitIdx = 0
    /\ svcStatuses = <<>>
    /\ svcRet = NoResult

(***************************************************************************)
(* parseScanStatuses, one line per step.                                   *)
(***************************************************************************)
\* lines of zpool status the model draws its texts from
L_poolA == <<" ", "p", "o", "o", "l", ":", " ", "a">>

L_poolB == <<"p", "o", "o", "l", ":", " ", "b">>

L_scrub == <<" ", "s", "c", "a", "n", ":", " ", "s", "c", "r", "u", "b", " ", "i", "n", " ", "p", "r", "o", "g", "r", "e", "s", "s">>

L_resilver == <<"s", "c", "a", "n", ":", " ", "r", "e", "s", "i", "l", "v", "e", "r", " ", "i", "n", " ", "p", "r", "o", "g", "r", "e", "s", "s">>

L_none == <<" ", "s", "c", "a", "n", ":", " ", "n", "o", "n", "e">>

L_pct0 == <<"0", "B", ",", " ", "0", ".", "0", "0", "%", " ", "d", "o", "n", "e">>

L_pct48 == <<" ", "4", "8", ".", "3", "6", "%", " ", "d", "o", "n", "e", ",">>

L_pct150 == <<"1", "5", "0", "%", " ", "d", "o", "n", "e">>

L_blank == <<>>

ScanLineSet ==
    {L_poolA, L_poolB, L_scrub, L_resilver, L_none, L_pct0, L_pct48, L_pct150,
     L_blank}

ScanTexts == {Join(ls, NL) : ls \in SeqsUpTo(ScanLineSet, MaxScanLines)}

ScanIdle ==
    /\ data = <<>>
    /\ scanPc = "idle"
    /\ lineIdx = 0
    /\ statuses = <<>>
    /\ currentPool = <<>>
    /\ scanSeen = FALSE

Lines == Split(data, NL)

\* scan.go lines 30-40
ScanBegin ==
    /\ scanPc = "call"
    /\ statuses' = <<>>
    /\ currentPool' = <<>>
    /\ scanSeen' = FALSE
    /\ IF TrimSpace(data) = <<>>
       THEN scanPc' = "done" /\ lineIdx' = 0
       ELSE scanPc' = "loop" /\ lineIdx' = 1
    /\ UNCHANGED <<data, nonScanVars>>

\* scan.go lines 42-78
ScanLine ==
    /\ scanPc = "loop"
    /\ lineIdx <= Len(Lines)
    /\ LET st == scanLoopBody([statuses |-> statuses, currentPool |-> currentPool,
                               scanSeen |-> scanSeen], Lines[lineIdx])
       IN  /\ statuses' = st.statuses
           /\ currentPool' = st.currentPool
           /\ scanSeen' = st.scanSeen
    /\ lineIdx' = lineIdx + 1
    /\ UNCHANGED <<data, scanPc, nonScanVars>>

\* scan.go lines 80-86
ScanReturn ==
    /\ scanPc = "loop"
    /\ lineIdx > Len(Lines)
    /\ statuses' = scanCloseLast([statuses |-> statuses, currentPool |-> currentPool,
                                  scanSeen |-> scanSeen])
    /\ scanPc' = "done"
    /\ UNCHANGED <<data, lineIdx, currentPool, scanSeen, nonScanVars>>

InitScan ==
    /\ data \in ScanTexts
    /\ scanPc = "call"
    /\ lineIdx = 0
    /\ statuses = <<>>
    /\ currentPool = <<>>
    /\ scanSeen = FALSE
    /\ RunIdle
    /\ SvcIdle
    /\ ColIdle
    /\ ParseIdle

NextScan ==
    \/ ScanBegin
    \/ ScanLine
    \/ ScanReturn

SpecScan == InitScan /\ [][NextScan]_vars

(***************************************************************************)
(* Claims about parseScanStatuses.                                         *)
(***************************************************************************)
PoolHeaders == {i \in 1..Len(Lines) : poolNameRe(Lines[i]).ok}

\* C7: the number of records parseScanStatuses returns equals the number of
\* "pool: NAME" header lines of its input, for every input text.
C7_OneRecordPerPoolSection ==
    scanPc = "done" => Len(statuses) = Cardinality(PoolHeaders)

\* the lines the loop has consumed
Consumed == IF scanPc = "done" /\ lineIdx = 0 THEN {} ELSE 1..(lineIdx - 1)

\* lines i and j lie in the same pool section
SameSection(i, j) ==
    ~\E h \in PoolHeaders : (i < h /\ h <= j) \/ (j < h /\ h <= i)

\* the lines that emitted an active-scan record, in sections whose only
\* "scan:" line so far is that line (so the section has one record)
ActiveLines ==
    {a \in Consumed :
        /\ ~poolNameRe(Lines[a]).ok
        /\ scanActiveRe(Lines[a]).ok
        /\ \E h \in PoolHeaders : h < a
        /\ \A j \in Consumed \ (PoolHeaders \cup {a}) :
              SameSection(a, j) => ~Contains(Lines[j], S_scan)}

\* the consumed lines after a, in a's pool section, that match the percentage pattern
LaterMatches(a) ==
    {j \in Consumed : j > a /\ SameSection(a, j) /\ progressRe(Lines[j]).ok}

\* C8: once a later line of the section has matched the percentage pattern,
\* the active-scan record emitted at line a carries the figure of the first
\* such line divided by 100 (also when that figure is 0), and keeps it
\* whatever lines follow.
C8_FirstMatchSetsProgress ==
    scanPc \in {"loop", "done"} =>
        \A a \in ActiveLines :
            LET F == LaterMatches(a)
                k == Len(scanAfter(Lines, a).statuses)
                v == ParseFloat(progressRe(Lines[SetMin(F)]).g).v
            IN  F # {} =>
                    /\ k <= Len(statuses)
                    /\ RatEq(statuses[k].Progress, Ratio(v.n, v.d * 100))

\* the records emitted for the pool section that starts at header line h
SectionRecords(h) ==
    LET later == {n \in PoolHeaders : n > h}
        first == Len(scanAfter(Lines, h).statuses) + 1
        last  == IF later = {} THEN Len(statuses)
                 ELSE Len(scanAfter(Lines, SetMin(later)).statuses)
    IN  first..last

\* the section that starts at header line h has a line that reports a scrub
\* or resilver in progress
HasActiveLine(h) ==
    \E a \in 1..Len(Lines) : a > h /\ SameSection(h, a) /\ scanActiveRe(Lines[a]).ok

\* C18: no record parseScanStatuses returns has Scrub and Resilver both
\* true; progress is non-zero only with exactly one of them true; the
\* records of a section without an active-scan line have both false and
\* progress 0.
C18_AtMostOneScanType ==
    scanPc = "done" =>
        /\ \A i \in 1..Len(statuses) :
              /\ ~(statuses[i].Scrub /\ statuses[i].Resilver)
              /\ statuses[i].Progress.n # 0 =>
                    (statuses[i].Scrub # statuses[i].Resilver)
        /\ \A h \in PoolHeaders :
              ~HasActiveLine(h) =>
                  \A i \in SectionRecords(h) :
                      /\ ~statuses[i].Scrub
                      /\ ~statuses[i].Resilver
                      /\ statuses[i].Progress.n = 0

\* a resilvering pool with a progress figure, then a pool with no scan line
C18_Witness ==
    /\ scanPc = "done"
    /\ Len(statuses) = 2
    /\ statuses[1].Resilver /\ ~statuses[1].Scrub /\ statuses[1].Progress.n # 0
    /\ ~statuses[2].Scrub /\ ~statuses[2].Resilver /\ statuses[2].Progress.n = 0
    /\ Cardinality(PoolHeaders) = 2
    /\ ~HasActiveLine(SetMax(PoolHeaders))

\* C19: the progress of every record parseScanStatuses returns is a ratio in
\* [0,1], whatever figure stands before "% done", and is 0 when no scan is
\* active.
C19_ProgressInUnitRange ==
    scanPc = "done" =>
        \A i \in 1..Len(statuses) :
            /\ RatLeq(Zero, statuses[i].Progress)
            /\ RatLeq(statuses[i].Progress, Ratio(1, 1))
            /\ (~statuses[i].Scrub /\ ~statuses[i].Resilver) =>
                  statuses[i].Progress.n = 0

(***************************************************************************)
(* pkg/host: ServiceChecker.CheckServices, one runner call per step.       *)
(***************************************************************************)
\* bound: number of candidate units of a service key
MaxUnits == 2

S_notFound == <<"n", "o", "t", "-", "f", "o", "u", "n", "d">>

S_active == <<"a", "c", "t", "i", "v", "e">>

O_loaded == <<"L", "o", "a", "d", "S", "t", "a", "t", "e", "=", "l", "o", "a", "d", "e", "d", "\n">>

O_notFound == <<"L", "o", "a", "d", "S", "t", "a", "t", "e", "=", "n", "o", "t", "-", "f", "o", "u", "n", "d", "\n">>

O_active == <<"a", "c", "t", "i", "v", "e", "\n">>

O_inactive == <<"i", "n", "a", "c", "t", "i", "v", "e", "\n">>

\* what systemctl show --property=LoadState may give the runner to return
ShowReplies == {Reply(O_loaded, FALSE), Reply(O_notFound, FALSE), Failed}

\* what systemctl is-active may give the runner to return: exit status 0
\* only for an active unit; a runner may hand back the output with the error
IsActiveReplies ==
    {Reply(O_active, FALSE), Reply(O_active, TRUE), Reply(O_inactive, TRUE), Failed}

\* the inputs of CheckServices the model draws from
ServiceKeys == {"nfs", "smb"}

UnitNames == {"nfs-kernel-server.service", "nfs-server.service"}

ServiceMaps ==
    UNION {[ks -> SeqsUpTo(UnitNames, MaxUnits)] : ks \in SUBSET ServiceKeys}

ServiceStatus(name, active) == [Name |-> name, Active |-> active]

unitExists_assumed(rep) == TRUE

\* unitExists, given what the runner returned for systemctl show
unitExists(rep) == ~rep.err /\ ~Contains(rep.out, S_notFound)

activeStatus_errorMeansInactive(k, rep) ==
    ServiceStatus(k, ~rep.err /\ TrimSpace(rep.out) = S_active)

\* the status checkServiceUnits returns for an existing unit, given what the
\* runner returned for systemctl is-active
activeStatus(k, rep) ==
    LET outStr == TrimSpace(rep.out)
    IN  IF rep.err /\ outStr = <<>>
        THEN ServiceStatus(k, FALSE)
        ELSE ServiceStatus(k, outStr = S_active)

CheckServicesResult_probeError(sts) == [v |-> <<>>, err |-> TRUE]

\* CheckServices: return statuses, nil
CheckServicesResult(sts) == [v |-> sts, err |-> FALSE]

appendStatus_noFoundCheck(sts, status, found) == Append(sts, status)

\* CheckServices: if found { statuses = append(statuses, status) }
appendStatus(sts, status, found) ==
    IF found THEN Append(sts, status) ELSE sts

unitLoopAfterFound_continue(idx) == [pc |-> "units", idx |-> idx + 1]

\* checkServiceUnits returns from inside the loop once a unit exists: the
\* range loop of CheckServices goes on with the next key
unitLoopAfterFound(idx) == [pc |-> "range", idx |-> idx]

\* for key, units := range services  (Go visits the keys in no fixed order)
SvcRange ==
    /\ svcPc = "range"
    /\ IF keysLeft = {}
       THEN /\ svcPc' = "done"
            /\ svcRet' = CheckServicesResult(svcStatuses)
            /\ UNCHANGED <<keysLeft, key, unitIdx>>
       ELSE \E k \in keysLeft :
                /\ key' = k
                /\ keysLeft' = keysLeft \ {k}
                /\ unitIdx' = 1
                /\ svcPc' = "units"
                /\ UNCHANGED svcRet
    /\ UNCHANGED <<services, svcCtx, svcStatuses, calls, inflight, nonSvcVars>>

\* for _, unit := range units: call unitExists(ctx, unit), or leave the loop
\* with (ServiceStatus{}, false) when the candidates are exhausted
SvcNextUnit ==
    /\ svcPc = "units"
    /\ IF unitIdx > Len(services[key])
       THEN /\ svcStatuses' = appendStatus(svcStatuses, ServiceStatus("", FALSE), FALSE)
            /\ svcPc' = "range"
            /\ UNCHANGED <<calls, inflight>>
       ELSE /\ calls' = [calls EXCEPT !["svc"] =
                            Append(@, Call(svcCtx, "systemctl", "show", key, unitIdx,
                                           services[key][unitIdx]))]
            /\ inflight' = [inflight EXCEPT !["svc"] = TRUE]
            /\ svcPc' = "show"
            /\ UNCHANGED svcStatuses
    /\ UNCHANGED <<services, svcCtx, keysLeft, key, unitIdx, svcRet, nonSvcVars>>

\* systemctl show returns; if the unit exists, systemctl is-active is called
SvcShowReturn ==
    /\ svcPc = "show"
    /\ inflight["svc"]
    /\ \E rep \in runnerReplies(svcCtx, ShowReplies) :
          IF unitExists(rep)
          THEN /\ calls' = [calls EXCEPT !["svc"] =
                               Append(Returned("svc", rep),
                                      Call(svcCtx, "systemctl", "is-active", key, unitIdx,
                                           services[key][unitIdx]))]
               /\ svcPc' = "isActive"
               /\ UNCHANGED <<inflight, unitIdx>>
          ELSE /\ calls' = [calls EXCEPT !["svc"] = Returned("svc", rep)]
               /\ inflight' = [inflight EXCEPT !["svc"] = FALSE]
               /\ unitIdx' = unitIdx + 1
               /\ svcPc' = "units"
    /\ UNCHANGED <<services, svcCtx, keysLeft, key, svcStatuses, svcRet, nonSvcVars>>

\* systemctl is-active returns: checkServiceUnits returns (status, true)
SvcIsActiveReturn ==
    /\ svcPc = "isActive"
    /\ inflight["svc"]
    /\ \E rep \in runnerReplies(svcCtx, IsActiveReplies) :
          /\ calls' = [calls EXCEPT !["svc"] = Returned("svc", rep)]
          /\ svcStatuses' = appendStatus(svcStatuses, activeStatus(key, rep), TRUE)
    /\ inflight' = [inflight EXCEPT !["svc"] = FALSE]
    /\ svcPc' = unitLoopAfterFound(unitIdx).pc
    /\ unitIdx' = unitLoopAfterFound(unitIdx).idx
    /\ UNCHANGED <<services, svcCtx, keysLeft, key, svcRet, nonSvcVars>>

\* CheckServices(context.Background(), services)
InitSvc ==
    /\ services \in ServiceMaps
    /\ svcCtx = Background
    /\ svcPc = "range"
    /\ keysLeft = DOMAIN services
    /\ key = ""
    /\ unitIdx = 0
    /\ svcStatuses = <<>>
    /\ svcRet = NoResult
    /\ RunIdle
    /\ ScanIdle
    /\ ColIdle
    /\ ParseIdle

NextSvc ==
    \/ SvcRange
    \/ SvcNextUnit
    \/ SvcShowReturn
    \/ SvcIsActiveReturn

SpecSvc == InitSvc /\ [][NextSvc]_vars

(***************************************************************************)
(* Claims about CheckServices.                                             *)
(***************************************************************************)
SvcLog == calls["svc"]

\* the existence query of call c has reported its unit as existing
ReportsExisting(c) ==
    c.sub = "show" /\ c.done /\ ~c.err /\ ~Contains(c.out, S_notFound)

\* key k has a candidate whose existence query reported it as existing
HasExisting(k) ==
    \E i \in 1..Len(SvcLog) : SvcLog[i].key = k /\ ReportsExisting(SvcLog[i])

RecordsOf(k) == {i \in 1..Len(svcStatuses) : svcStatuses[i].Name = k}

\* C9: CheckServices returns exactly one record for each key that has an
\* existing candidate and none for a key without one; every record's name
\* is a key of the input map.
C9_OneRecordPerResolvedKey ==
    svcPc = "done" =>
        /\ \A k \in DOMAIN services :
              Cardinality(RecordsOf(k)) = IF HasExisting(k) THEN 1 ELSE 0
        /\ \A i \in 1..Len(svcStatuses) : svcStatuses[i].Name \in DOMAIN services

\* a call of CheckServices with two keys: one resolved, one whose two
\* candidates both reported not-found
C9_Witness ==
    /\ svcPc = "done"
    /\ Len(svcStatuses) = 1
    /\ \E k1, k2 \in DOMAIN services :
          /\ HasExisting(k1)
          /\ Len(services[k2]) = 2
          /\ Cardinality({i \in 1..Len(SvcLog) :
                            /\ SvcLog[i].key = k2
                            /\ SvcLog[i].sub = "show"
                            /\ ~SvcLog[i].err
                            /\ SvcLog[i].out = O_notFound}) = 2

\* C10: the candidates of a key are probed in list order, one existence
\* query per candidate without skipping; after a candidate was reported
\* existing the only further probe for the key is the activity query of
\* that candidate; the key's record is the one of that candidate.
C10_ProbesInOrderFirstExistingWins ==
    /\ \A j \in 1..Len(SvcLog) :
          LET c == SvcLog[j]
          IN  /\ c.idx \in 1..Len(services[c.key])
              /\ c.unit = services[c.key][c.idx]
              /\ c.sub = "show" =>
                    c.idx = 1 + Cardinality({i \in 1..(j - 1) :
                                  SvcLog[i].key = c.key /\ SvcLog[i].sub = "show"})
              /\ \A i \in 1..(j - 1) :
                    SvcLog[i].key = c.key =>
                        /\ SvcLog[i].idx <= c.idx
                        /\ ReportsExisting(SvcLog[i]) =>
                              /\ j = i + 1
                              /\ c.sub = "is-active"
                              /\ c.idx = SvcLog[i].idx
    /\ svcPc = "done" =>
          \A j \in 1..Len(SvcLog) :
              SvcLog[j].sub = "is-active" =>
                  /\ Cardinality(RecordsOf(SvcLog[j].key)) = 1
                  /\ \A q \in RecordsOf(SvcLog[j].key) :
                        svcStatuses[q].Active = (TrimSpace(SvcLog[j].out) = S_active)

\* candidates [A, B]: A reported not-found, B exists and is active, and the
\* result is exactly one active record
C10_Witness ==
    /\ svcPc = "done"
    /\ DOMAIN services = {"nfs"}
    /\ services["nfs"] = <<"nfs-kernel-server.service", "nfs-server.service">>
    /\ Len(SvcLog) = 3
    /\ SvcLog[1].sub = "show" /\ SvcLog[1].idx = 1 /\ SvcLog[1].out = O_notFound
    /\ SvcLog[2].sub = "show" /\ SvcLog[2].idx = 2 /\ SvcLog[2].out = O_loaded
    /\ SvcLog[3].sub = "is-active" /\ SvcLog[3].idx = 2
    /\ SvcLog[3].out = O_active /\ ~SvcLog[3].err
    /\ svcStatuses = <<ServiceStatus("nfs", TRUE)>>

\* the calls made for key k, as positions of the log
CallsFor(k) == {i \in 1..Len(SvcLog) : SvcLog[i].key = k}

H_online == <<"o", "n", "l", "i", "n", "e">>

H_degraded == <<"d", "e", "g", "r", "a", "d", "e", "d">>

H_faulted == <<"f", "a", "u", "l", "t", "e", "d">>

H_offline == <<"o", "f", "f", "l", "i", "n", "e">>

H_removed == <<"r", "e", "m", "o", "v", "e", "d">>

H_unavail == <<"u", "n", "a", "v", "a", "i", "l">>

healthStates == <<H_online, H_degraded, H_faulted, H_offline, H_removed, H_unavail>>

\* prometheus.MustNewConstMetric(desc, prometheus.GaugeValue, value, labels...)
Metric(desc, value, labels) == [desc |-> desc, value |-> value, labels |-> labels]

\* 0.0 or 1.0 for a flag
Flag(b) == IF b THEN Float(1) ELSE Float(0)

\* the concatenation of a sequence of sequences
RECURSIVE Flatten(_)
Flatten(ss) == IF Len(ss) = 0 THEN <<>> ELSE ss[1] \o Flatten(Tail(ss))

collectPoolMetrics(pools) ==
    Flatten([i \in 1..Len(pools) |->
        LET p == pools[i]
        IN  << Metric("poolSize", Float(p.Size), <<p.Name>>),
               Metric("poolAllocated", Float(p.Allocated), <<p.Name>>),
               Metric("poolFree", Float(p.Free), <<p.Name>>),
               Metric("poolFragmentation", p.Fragmentation, <<p.Name>>),
               Metric("poolDedup", p.DedupRatio, <<p.Name>>),
               Metric("poolReadOnly", Flag(p.ReadOnly), <<p.Name>>) >>
            \o [k \in 1..Len(healthStates) |->
                   Metric("poolHealth", Flag(healthStates[k] = ToLower(p.Health)),
                          <<p.Name, healthStates[k]>>)]])

collectScanMetrics_noProgress(scans) ==
    Flatten([i \in 1..Len(scans) |->
        LET sc == scans[i]
        IN  << Metric("poolScrubActive", Flag(sc.Scrub), <<sc.Pool>>),
               Metric("poolResilverActive", Flag(sc.Resilver), <<sc.Pool>>) >>])

collectScanMetrics(scans) ==
    Flatten([i \in 1..Len(scans) |->
        LET sc == scans[i]
        IN  << Metric("poolScrubActive", Flag(sc.Scrub), <<sc.Pool>>),
               Metric("poolResilverActive", Flag(sc.Resilver), <<sc.Pool>>),
               Metric("poolScanProgress", sc.Progress, <<sc.Pool>>) >>])

collectDatasetMetrics(datasets) ==
    Flatten([i \in 1..Len(datasets) |->
        LET d == datasets[i]
            l == <<d.Name, d.Type, d.Pool>>
        IN  << Metric("datasetUsed", Float(d.Used), l),
               Metric("datasetAvailable", Float(d.Available), l),
               Metric("datasetReferenced", Float(d.Referenced), l),
               Metric("datasetShareNFS", Flag(d.ShareNFS), l),
               Metric("datasetShareSMB", Flag(d.ShareSMB), l) >>])

collectServiceMetrics(svcs) ==
    [i \in 1..Len(svcs) |-> Metric("serviceUp", Flag(svcs[i].Active), <<svcs[i].Name>>)]

PoolDescs ==
    {"poolSize", "poolAllocated", "poolFree", "poolFragmentation", "poolDedup",
     "poolReadOnly", "poolHealth"}

ScanDescs == {"poolScrubActive", "poolResilverActive", "poolScanProgress"}

DatasetDescs ==
    {"datasetUsed", "datasetAvailable", "datasetReferenced", "datasetShareNFS",
     "datasetShareSMB"}

ServiceDescs == {"serviceUp"}

\* Client.GetPools, given what the runner returned for zpool list
GetPools(rep) == IF rep.err THEN Err ELSE parsePools(rep.out)

\* Client.GetDatasets, given what the runner returned for zfs list
GetDatasets(rep) == IF rep.err THEN Err ELSE parseDatasets(rep.out)

\* Client.GetScanStatuses, given what the runner returned for zpool status
GetScanStatuses(rep) == IF rep.err THEN Err ELSE Ok(parseScanStatuses(rep.out))

(***************************************************************************)
(* collector: Collector.Collect and fetchOptional, one step per runner     *)
(* call or return.                                                         *)
(***************************************************************************)
\* bound: the clock runs from 0 to MaxTime
MaxTime == 3

\* bound: c.timeout is drawn from 1..MaxTimeout
MaxTimeout == 2

\* outputs of zpool list -Hp; P_short and P_badnum are malformed
P_two == <<"a", "\t", "1", "0", "\t", "4", "\t", "6", "\t", "5", "\t", "1", ".", "0", "0", "\t", "O", "N", "L", "I", "N", "E", "\t", "o", "f", "f", "\n", "b", "\t", "2", "0", "\t", "0", "\t", "2", "0", "\t", "-", "\t", "1", ".", "5", "0", "\t", "d", "e", "g", "r", "a", "d", "e", "d", "\t", "o", "n", "\n">>

P_short == <<"a", "\t", "1", "0", "\t", "4", "\t", "6", "\n">>

P_badnum == <<"a", "\t", "x", "\t", "4", "\t", "6", "\t", "5", "\t", "1", ".", "0", "0", "\t", "O", "N", "L", "I", "N", "E", "\t", "o", "f", "f", "\n">>

\* one pool whose health is SUSPENDED
P_susp == <<"a", "\t", "1", "0", "\t", "4", "\t", "6", "\t", "5", "\t", "1", ".", "0", "0", "\t", "S", "U", "S", "P", "E", "N", "D", "E", "D", "\t", "o", "f", "f", "\n">>

PoolOutputs == {<<>>, P_two, P_short, P_badnum, P_susp}

\* outputs of zfs list -Hp; D_short is malformed
D_one == <<"a", "/", "d", "\t", "1", "\t", "2", "\t", "3", "\t", "f", "i", "l", "e", "s", "y", "s", "t", "e", "m", "\t", "o", "n", "\t", "-", "\n">>

D_short == <<"a", "/", "d", "\t", "1", "\t", "2", "\n">>

DatasetOutputs == {<<>>, D_one, D_short}

\* outputs of zpool status
T_scrub == <<" ", " ", "p", "o", "o", "l", ":", " ", "a", "\n", " ", " ", "s", "c", "a", "n", ":", " ", "s", "c", "r", "u", "b", " ", "i", "n", " ", "p", "r", "o", "g", "r", "e", "s", "s", "\n", "\t", "4", "8", ".", "3", "6", "%", " ", "d", "o", "n", "e", ",", " ", "0", " ", "d", "a", "y", "s", " ", "t", "o", " ", "g", "o", "\n">>

StatusOutputs == {<<>>, T_scrub}

\* what a command that prints one of outs may give the runner to return
CommandReplies(outs) == {Reply(o, FALSE) : o \in outs} \cup {Failed}

\* c.services
CollectorServices ==
    [k \in {"nfs"} |-> <<"nfs-kernel-server.service", "nfs-server.service">>]

upValue_always1(poolErr) == 1

\* the value of the up metric
upValue(poolErr) == IF poolErr THEN 0 ELSE 1

fetchesAfterPools_always(poolErr) == TRUE

\* whether Collect goes on to fetchOptional
fetchesAfterPools(poolErr) == ~poolErr

fetchOptionalCtx_background(cx) == Background

\* the context fetchOptional hands to the three fetches
fetchOptionalCtx(cx) == cx

waitDone_firstToFinish(n) == n < 3

\* wg.Wait() returns
waitDone(n) == n = 0

collectOptional_allOrNothing(res) ==
    IF \E g \in Fetches : res[g].err THEN <<>>
    ELSE collectDatasetMetrics(res["ds"].v) \o collectScanMetrics(res["scan"].v)
           \o collectServiceMetrics(res["svc"].v)

\* what Collect sends after fetchOptional returned res
collectOptional(res) ==
    (IF res["ds"].err THEN <<>> ELSE collectDatasetMetrics(res["ds"].v))
    \o (IF res["scan"].err THEN <<>> ELSE collectScanMetrics(res["scan"].v))
    \o (IF res["svc"].err THEN <<>> ELSE collectServiceMetrics(res["svc"].v))

collectMeta_noDurationOnFailure(duration, poolErr) ==
    IF poolErr THEN << Metric("up", Float(upValue(poolErr)), <<>>) >>
    ELSE << Metric("scrapeDuration", duration, <<>>),
            Metric("up", Float(upValue(poolErr)), <<>>) >>

\* the scrape duration and up samples Collect sends once GetPools has returned
collectMeta(duration, poolErr) ==
    << Metric("scrapeDuration", duration, <<>>),
       Metric("up", Float(upValue(poolErr)), <<>>) >>

\* p invokes the runner
Invoke(p, cx, name, sub) ==
    /\ calls' = [calls EXCEPT ![p] = Append(@, Call(cx, name, sub, "", 0, ""))]
    /\ inflight' = [inflight EXCEPT ![p] = TRUE]

\* p's invocation in flight returns rep
Return(p, rep) ==
    /\ calls' = [calls EXCEPT ![p] = Returned(p, rep)]
    /\ inflight' = [inflight EXCEPT ![p] = FALSE]

\* time passes; an invocation whose context is done returns before it does
Tick ==
    /\ pc # "done"
    /\ now < MaxTime
    /\ \A p \in Procs : inflight[p] => ~Expired(LastCall(p).ctx)
    /\ now' = now + 1
    /\ UNCHANGED <<calls, inflight, scanVars, svcVars, colVars, parseVars>>

\* Collect: start, ctx, and the call of GetPools
CollectBegin ==
    /\ pc = "idle"
    /\ start' = now
    /\ ctx' = WithDeadline(now + timeout)
    /\ Invoke("main", ctx', "zpool", "list")
    /\ pc' = "getPools"
    /\ UNCHANGED <<now, timeout, warned, ch, r, gpc, wg, scanVars, svcVars, parseVars>>

\* GetPools returns: scrape duration, up, and on success the pool metrics
\* and the start of fetchOptional (wg.Add(3) and the three go statements)
GetPoolsReturn ==
    /\ pc = "getPools"
    /\ inflight["main"]
    /\ \E rep \in runnerReplies(ctx, CommandReplies(PoolOutputs)) :
          LET pools == GetPools(rep)
              head == collectMeta(Float(now - start), pools.err)
          IN  /\ Return("main", rep)
              /\ ch' = IF pools.err THEN head ELSE head \o collectPoolMetrics(pools.v)
              /\ IF fetchesAfterPools(pools.err)
                 THEN /\ wg' = 3
                      /\ gpc' = [g \in Fetches |-> "start"]
                      /\ pc' = "wait"
                 ELSE /\ pc' = "done"
                      /\ UNCHANGED <<wg, gpc>>
    /\ UNCHANGED <<now, timeout, warned, start, ctx, r, scanVars, svcVars, parseVars>>

\* goroutine 1 calls c.client.GetDatasets(ctx)
FetchDatasetsCall ==
    /\ gpc["ds"] = "start"
    /\ Invoke("ds", fetchOptionalCtx(ctx), "zfs", "list")
    /\ gpc' = [gpc EXCEPT !["ds"] = "call"]
    /\ UNCHANGED <<now, pc, timeout, warned, start, ctx, ch, r, wg, scanVars, svcVars, parseVars>>

\* GetDatasets returns: r.datasets, r.dsErr are assigned; wg.Done()
FetchDatasetsReturn ==
    /\ gpc["ds"] = "call"
    /\ inflight["ds"]
    /\ \E rep \in runnerReplies(LastCall("ds").ctx, CommandReplies(DatasetOutputs)) :
          /\ Return("ds", rep)
          /\ r' = [r EXCEPT !["ds"] = GetDatasets(rep)]
    /\ gpc' = [gpc EXCEPT !["ds"] = "done"]
    /\ wg' = wg - 1
    /\ UNCHANGED <<now, pc, timeout, warned, start, ctx, ch, scanVars, svcVars, parseVars>>

\* goroutine 2 calls c.client.GetScanStatuses(ctx)
FetchScansCall ==
    /\ gpc["scan"] = "start"
    /\ Invoke("scan", fetchOptionalCtx(ctx), "zpool", "status")
    /\ gpc' = [gpc EXCEPT !["scan"] = "call"]
    /\ UNCHANGED <<now, pc, timeout, warned, start, ctx, ch, r, wg, scanVars, svcVars, parseVars>>

\* GetScanStatuses returns: r.scans, r.scanErr are assigned; wg.Done()
FetchScansReturn ==
    /\ gpc["scan"] = "call"
    /\ inflight["scan"]
    /\ \E rep \in runnerReplies(LastCall("scan").ctx, CommandReplies(StatusOutputs)) :
          /\ Return("scan", rep)
          /\ r' = [r EXCEPT !["scan"] = GetScanStatuses(rep)]
    /\ gpc' = [gpc EXCEPT !["scan"] = "done"]
    /\ wg' = wg - 1
    /\ UNCHANGED <<now, pc, timeout, warned, start, ctx, ch, scanVars, svcVars, parseVars>>

\* goroutine 3 calls c.svcChecker.CheckServices(ctx, c.services)
FetchServicesCall ==
    /\ gpc["svc"] = "start"
    /\ services' = CollectorServices
    /\ svcCtx' = fetchOptionalCtx(ctx)
    /\ keysLeft' = DOMAIN CollectorServices
    /\ svcStatuses' = <<>>
    /\ svcRet' = NoResult
    /\ svcPc' = "range"
    /\ gpc' = [gpc EXCEPT !["svc"] = "call"]
    /\ UNCHANGED <<key, unitIdx, runVars, pc, timeout, warned, start, ctx, ch, r, wg, scanVars, parseVars>>

\* CheckServices returns (statuses, nil): r.svcs, r.svcErr are assigned; wg.Done()
FetchServicesReturn ==
    /\ gpc["svc"] = "call"
    /\ svcPc = "done"
    /\ r' = [r EXCEPT !["svc"] = svcRet]
    /\ gpc' = [gpc EXCEPT !["svc"] = "done"]
    /\ wg' = wg - 1
    /\ UNCHANGED <<runVars, pc, timeout, warned, start, ctx, ch, scanVars, svcVars, parseVars>>

\* wg.Wait() returns, fetchOptional returns r, Collect logs a warning for
\* each source whose error is set, sends the metrics of the others and returns
WaitReturn ==
    /\ pc = "wait"
    /\ waitDone(wg)
    /\ ch' = ch \o collectOptional(r)
    /\ pc' = "done"
    /\ warned' = {g \in Fetches : r[g].err}
    /\ UNCHANGED <<runVars, timeout, start, ctx, r, gpc, wg, scanVars, svcVars, parseVars>>

\* a Collector constructed with some timeout, before a call of Collect
Init ==
    /\ pc = "idle"
    /\ timeout \in 1..MaxTimeout
    /\ start = 0
    /\ ctx = Background
    /\ ch = <<>>
    /\ r = [g \in Fetches |-> NoResult]
    /\ gpc = [g \in Fetches |-> "idle"]
    /\ wg = 0
    /\ warned = {}
    /\ RunIdle
    /\ SvcIdle
    /\ ScanIdle
    /\ ParseIdle

Next ==
    \/ Tick
    \/ CollectBegin
    \/ GetPoolsReturn
    \/ FetchDatasetsCall
    \/ FetchDatasetsReturn
    \/ FetchScansCall
    \/ FetchScansReturn
    \/ FetchServicesCall
    \/ SvcRange
    \/ SvcNextUnit
    \/ SvcShowReturn
    \/ SvcIsActiveReturn
    \/ FetchServicesReturn
    \/ WaitReturn

Spec == Init /\ [][Next]_vars

(***************************************************************************)
(* Claims about Collector.Collect.                                         *)
(***************************************************************************)
MainLog == calls["main"]

\* the results of the parsers on the outputs the commands may print
PoolListings == [o \in PoolOutputs |-> parsePools(o)]

DatasetListings == [o \in DatasetOutputs |-> parseDatasets(o)]

ScanListings == [o \in StatusOutputs |-> parseScanStatuses(o)]

\* the metrics sent so far whose descriptor is in D, in order
Emitted(D) == SelectSeq(ch, LAMBDA m : m.desc \in D)

OptionalDescs == DatasetDescs \cup ScanDescs \cup ServiceDescs

UpIs(n) == Emitted({"up"}) = <<Metric("up", Float(n), <<>>)>>

\* the invocation behind GetPools has returned
PoolsReturned == Len(MainLog) = 1 /\ MainLog[1].done

\* GetPools returned an error: the command failed or its output is malformed
PoolsFailed == PoolsReturned /\ (MainLog[1].err \/ PoolListings[MainLog[1].out].err)

PoolsSucceeded == PoolsReturned /\ ~MainLog[1].err /\ ~PoolListings[MainLog[1].out].err

\* the fetch of goroutine g (ds or scan) returned an error
FetchFailed(g) ==
    LET c == calls[g][1]
    IN  c.err \/ (g = "ds" /\ DatasetListings[c.out].err)

\* some invocation of p returned when its context was already done
TimedOut(p) == \E i \in 1..Len(calls[p]) : calls[p][i].cancelled

\* C1: no optional command is invoked unless GetPools has returned
\* successfully; when GetPools fails Collect reports up=0 and returns without
\* any optional fetch and without any pool, dataset, scan or service sample.
C1_PoolsFirstAndFatal ==
    /\ (\E g \in Fetches : calls[g] # <<>> \/ gpc[g] # "idle") => PoolsSucceeded
    /\ PoolsFailed =>
          /\ pc = "done"
          /\ UpIs(0)
          /\ Emitted(PoolDescs \cup OptionalDescs) = <<>>
          /\ \A g \in Fetches : calls[g] = <<>>

\* Collect has returned after zpool list printed a malformed listing
C1_Witness ==
    /\ pc = "done"
    /\ PoolsFailed
    /\ ~MainLog[1].err
    /\ MainLog[1].out = P_short
    /\ Len(ch) = 2

\* the serviceUp samples a key must have, from the runner's replies
ServiceSamplesFor(k) ==
    IF HasExisting(k)
    THEN LET j == CHOOSE i \in 1..Len(SvcLog) :
                      SvcLog[i].key = k /\ SvcLog[i].sub = "is-active"
         IN  <<Metric("serviceUp", Flag(TrimSpace(SvcLog[j].out) = S_active), <<k>>)>>
    ELSE <<>>

\* C2: when GetPools succeeds, whatever the outcomes of the three optional
\* fetches, Collect sends up=1 and all pool samples; the samples of an
\* optional source that failed are absent and those of one that succeeded are
\* all there, each source by its own outcome only.
C2_OptionalSourcesIndependent ==
    (pc = "done" /\ PoolsSucceeded) =>
        /\ UpIs(1)
        /\ Emitted(PoolDescs) = collectPoolMetrics(PoolListings[MainLog[1].out].v)
        /\ Emitted(DatasetDescs) =
              IF FetchFailed("ds") THEN <<>>
              ELSE collectDatasetMetrics(DatasetListings[calls["ds"][1].out].v)
        /\ Emitted(ScanDescs) =
              IF FetchFailed("scan") THEN <<>>
              ELSE collectScanMetrics(ScanListings[calls["scan"][1].out])
        /\ \A k \in DOMAIN CollectorServices :
              SelectSeq(Emitted(ServiceDescs), LAMBDA m : m.labels = <<k>>)
                  = ServiceSamplesFor(k)
        /\ \A i \in 1..Len(Emitted(ServiceDescs)) :
              Emitted(ServiceDescs)[i].labels[1] \in DOMAIN CollectorServices

\* pools listed, zfs list failed, zpool status and the services succeeded
\* with records
C2_Witness ==
    /\ pc = "done"
    /\ PoolsSucceeded
    /\ Emitted(PoolDescs) # <<>>
    /\ FetchFailed("ds")
    /\ Emitted(DatasetDescs) = <<>>
    /\ Len(Emitted(ScanDescs)) = 3
    /\ Len(Emitted(ServiceDescs)) = 1

\* C3: a Collect call reports up=1 if GetPools returned no error (an empty
\* listing included) and up=0 otherwise, once, and the value stays what
\* GetPools made it through the dataset, scan and service fetches.
C3_UpFromPoolsOnly ==
    /\ pc \in {"wait", "done"} => ch # <<>>
    /\ ch # <<>> =>
          /\ PoolsReturned
          /\ IF PoolsSucceeded THEN UpIs(1) ELSE UpIs(0)

\* an empty pool listing: up=1, no pool samples, and the dataset fetch failed
C3_Witness ==
    /\ pc = "done"
    /\ ~MainLog[1].err
    /\ MainLog[1].out = <<>>
    /\ UpIs(1)
    /\ Emitted(PoolDescs) = <<>>
    /\ FetchFailed("ds")
    /\ calls["scan"][1].err

C4_Joined ==
    /\ pc = "wait" => \A g \in Fetches : gpc[g] # "idle"
    /\ pc = "done" => \A g \in Fetches : gpc[g] \in {"idle", "done"} /\ ~inflight[g]
    /\ Emitted(OptionalDescs) # <<>> => \A g \in Fetches : gpc[g] = "done"

C4_OwnSlotOnly ==
    /\ \A g \in Fetches :
          r'[g] # r[g] =>
              /\ gpc[g] = "call" /\ gpc'[g] = "done"
              /\ \A h \in Fetches \ {g} : r'[h] = r[h] /\ gpc'[h] = gpc[h]
    /\ (pc = "wait" /\ pc' = "done") =>
          /\ \A g \in Fetches : gpc[g] = "done"
          /\ ch' = ch \o collectOptional(r)
          /\ r' = r

\* C4: in the optional phase three fetches run concurrently, a fetch writes
\* its own result slot only, and Collect reads the slots and sends the
\* optional samples only when all three have completed; none is running when
\* Collect has returned.
C4_ThreeFetchesJoined == []C4_Joined /\ [][C4_OwnSlotOnly]_vars

\* the three fetches have a command in flight at the same time
C4_Witness ==
    /\ pc = "wait"
    /\ inflight["ds"]
    /\ inflight["scan"]
    /\ inflight["svc"]

SourceFailed(g) ==
    IF g = "svc"
    THEN /\ SvcLog # <<>>
         /\ \A i \in 1..Len(SvcLog) : SvcLog[i].err /\ SvcLog[i].out = <<>>
    ELSE FetchFailed(g)

\* C14: when Collect has returned after a successful pool fetch, it has
\* logged a warning for an optional source exactly if that source failed,
\* for each of datasets, scan statuses and services.
C14_WarningPerFailedSource ==
    (pc = "done" /\ PoolsSucceeded) =>
        \A g \in Fetches : g \in warned <=> SourceFailed(g)

(***************************************************************************)
(* pkg/zfs: parsePools, parseDatasets and parseScanStatuses called on a    *)
(* text.                                                                   *)
(***************************************************************************)
\* bound: number of lines of a listing given to parsePools or parseDatasets
MaxListLines == 2

\* bound: length of a whitespace-only text
MaxBlankLen == 2

\* lines of zpool list -Hp that parsePools accepts
G_a == <<"a", "\t", "1", "0", "\t", "4", "\t", "6", "\t", "5", "\t", "1", ".", "0", "0", "\t", "O", "N", "L", "I", "N", "E", "\t", "o", "f", "f">>

G_b == <<"b", "\t", "2", "0", "\t", "0", "\t", "2", "0", "\t", "-", "\t", "1", ".", "5", "0", "\t", "d", "e", "g", "r", "a", "d", "e", "d", "\t", "o", "n">>

G_c == <<"c", "\t", "8", "\t", "8", "\t", "0", "\t", "1", "5", "0", "\t", "2", "\t", "F", "A", "U", "L", "T", "E", "D", "\t", "O", "n">>

\* lines with 4 fields, a non-numeric size, fragmentation, dedup ratio
B_fields == <<"a", "\t", "1", "0", "\t", "4", "\t", "6">>

B_size == <<"a", "\t", "x", "\t", "4", "\t", "6", "\t", "5", "\t", "1", ".", "0", "0", "\t", "O", "N", "L", "I", "N", "E", "\t", "o", "f", "f">>

B_frag == <<"a", "\t", "1", "0", "\t", "4", "\t", "6", "\t", "5", "%", "\t", "1", ".", "0", "0", "\t", "O", "N", "L", "I", "N", "E", "\t", "o", "f", "f">>

B_dedup == <<"a", "\t", "1", "0", "\t", "4", "\t", "6", "\t", "5", "\t", "1", ".", "0", "0", "x", "\t", "O", "N", "L", "I", "N", "E", "\t", "o", "f", "f">>

GoodPoolLines == {G_a, G_b, G_c}

\* a pool line whose last field, readonly, is empty
E_roEmpty == <<"a", "\t", "1", "0", "\t", "4", "\t", "6", "\t", "5", "\t", "1", ".", "0", "0", "\t", "O", "N", "L", "I", "N", "E", "\t">>

EdgePoolLines == {E_roEmpty}

BadPoolLines == {B_fields, B_size, B_frag, B_dedup}

\* lines of zfs list -Hp that parseDatasets accepts
GD_fs == <<"a", "/", "d", "\t", "1", "\t", "2", "\t", "3", "\t", "f", "i", "l", "e", "s", "y", "s", "t", "e", "m", "\t", "o", "n", "\t", "-">>

GD_vol == <<"v", "\t", "4", "\t", "5", "\t", "6", "\t", "v", "o", "l", "u", "m", "e", "\t", "-", "\t", "o", "f", "f">>

\* lines with 3 fields, a non-numeric available
BD_fields == <<"a", "/", "d", "\t", "1", "\t", "2">>

BD_avail == <<"a", "/", "d", "\t", "1", "\t", "x", "\t", "3", "\t", "f", "i", "l", "e", "s", "y", "s", "t", "e", "m", "\t", "o", "f", "f", "\t", "o", "f", "f">>

\* a nested dataset with upper-case share values, and a name that starts with
\* "/" with an empty sharenfs
GD_deep == <<"a", "/", "b", "/", "c", "\t", "1", "\t", "2", "\t", "3", "\t", "f", "i", "l", "e", "s", "y", "s", "t", "e", "m", "\t", "O", "F", "F", "\t", "O", "f", "f">>

GD_root == <<"/", "x", "\t", "1", "\t", "2", "\t", "3", "\t", "v", "o", "l", "u", "m", "e", "\t", "\t", "o", "f", "f">>

GoodDatasetLines == {GD_fs, GD_vol, GD_deep, GD_root}

\* a dataset line whose last field, sharesmb, is empty
ED_smbEmpty == <<"v", "\t", "4", "\t", "5", "\t", "6", "\t", "v", "o", "l", "u", "m", "e", "\t", "o", "n", "\t">>

EdgeDatasetLines == {ED_smbEmpty}

BadDatasetLines == {BD_fields, BD_avail}

\* the texts whose lines are drawn from LS
TextsOf(LS) == {Join(ls, NL) : ls \in SeqsUpTo(LS, MaxListLines)}

\* empty and whitespace-only texts
BlankTexts == SeqsUpTo(Space, MaxBlankLen)

ParseInputs(fn) ==
    CASE fn = "parsePools" ->
             TextsOf(GoodPoolLines \cup BadPoolLines \cup EdgePoolLines \cup {<<>>})
                 \cup BlankTexts
      [] fn = "parseDatasets" ->
             TextsOf(GoodDatasetLines \cup BadDatasetLines \cup EdgeDatasetLines
                         \cup {<<>>}) \cup BlankTexts
      [] fn = "parseScanStatuses" -> BlankTexts \cup StatusOutputs

\* one call of a parser as a caller sees it
Called(fn, text, ret) == [fn |-> fn, data |-> text, ret |-> ret]

\* parsePools(data)
ParsePoolsCall ==
    /\ parsePc = "call"
    /\ parseFn = "parsePools"
    /\ parseRet' = parsePools(parseData)
    /\ parseLog' = Append(parseLog, Called(parseFn, parseData, parseRet'))
    /\ parsePc' = "done"
    /\ UNCHANGED <<parseFn, parseData, scanVars, runVars, svcVars, colVars>>

\* parseDatasets(data)
ParseDatasetsCall_keepsRecords ==
    /\ parsePc = "call"
    /\ parseFn = "parseDatasets"
    /\ parseRet' = LET res == parseDatasets(parseData)
                   IN  IF res.err THEN res ELSE Ok(parseRet.v \o res.v)
    /\ parseLog' = Append(parseLog, Called(parseFn, parseData, parseRet'))
    /\ parsePc' = "done"
    /\ UNCHANGED <<parseFn, parseData, scanVars, runVars, svcVars, colVars>>

ParseDatasetsCall ==
    /\ parsePc = "call"
    /\ parseFn = "parseDatasets"
    /\ parseRet' = parseDatasets(parseData)
    /\ parseLog' = Append(parseLog, Called(parseFn, parseData, parseRet'))
    /\ parsePc' = "done"
    /\ UNCHANGED <<parseFn, parseData, scanVars, runVars, svcVars, colVars>>

\* parseScanStatuses(data), which has no error result
ParseScanStatusesCall ==
    /\ parsePc = "call"
    /\ parseFn = "parseScanStatuses"
    /\ parseRet' = Ok(parseScanStatuses(parseData))
    /\ parseLog' = Append(parseLog, Called(parseFn, parseData, parseRet'))
    /\ parsePc' = "done"
    /\ UNCHANGED <<parseFn, parseData, scanVars, runVars, svcVars, colVars>>

InitParse ==
    /\ parseFn \in {"parsePools", "parseDatasets", "parseScanStatuses"}
    /\ parseData \in ParseInputs(parseFn)
    /\ parsePc = "call"
    /\ parseRet = NoResult
    /\ parseLog = <<>>
    /\ ScanIdle
    /\ RunIdle
    /\ SvcIdle
    /\ ColIdle

NextParse ==
    \/ ParsePoolsCall
    \/ ParseDatasetsCall
    \/ ParseScanStatusesCall

SpecParse == InitParse /\ [][NextParse]_vars

(***************************************************************************)
(* The parsers called one after the other by the same process.             *)
(***************************************************************************)
MaxCalls == 3

\* a few inputs per parser: well-formed, two records, malformed, empty
ReparseInputs(fn) ==
    CASE fn = "parsePools" -> {G_a, Join(<<G_a, G_b>>, NL), B_size}
      [] fn = "parseDatasets" -> {GD_fs, Join(<<GD_fs, GD_vol>>, NL), BD_fields}
      [] fn = "parseScanStatuses" -> StatusOutputs

\* the caller makes its next call, to any parser on any input
ParseAgain ==
    /\ parsePc = "done"
    /\ Len(parseLog) < MaxCalls
    /\ \E fn \in {"parsePools", "parseDatasets", "parseScanStatuses"} :
          /\ parseFn' = fn
          /\ parseData' \in ReparseInputs(fn)
    /\ parsePc' = "call"
    /\ UNCHANGED <<parseRet, parseLog, scanVars, runVars, svcVars, colVars>>

InitReparse ==
    /\ parseFn \in {"parsePools", "parseDatasets", "parseScanStatuses"}
    /\ parseData \in ReparseInputs(parseFn)
    /\ parsePc = "call"
    /\ parseRet = NoResult
    /\ parseLog = <<>>
    /\ ScanIdle
    /\ RunIdle
    /\ SvcIdle
    /\ ColIdle

NextReparse ==
    \/ NextParse
    \/ ParseAgain

SpecReparse == InitReparse /\ [][NextReparse]_vars

(***************************************************************************)
(* Claims about parsePools and parseDatasets.                              *)
(***************************************************************************)
DataLines == Split(parseData, NL)

\* the non-empty lines of the text, in order
NonBlank == SelectSeq(DataLines, LAMBDA l : l # <<>>)

HasLineIn(LS) == \E i \in DOMAIN DataLines : DataLines[i] \in LS

ParserReturned(fn) == parsePc = "done" /\ parseFn = fn

N_a == <<"a">>

N_b == <<"b">>

N_c == <<"c">>

S_ONLINE == <<"O", "N", "L", "I", "N", "E">>

S_DEGRADED == <<"D", "E", "G", "R", "A", "D", "E", "D">>

S_FAULTED == <<"F", "A", "U", "L", "T", "E", "D">>

\* the record a well-formed pool line stands for, column by column
PoolOf(line) ==
    CASE line = G_a ->
             [Name |-> N_a, Size |-> 10, Allocated |-> 4, Free |-> 6,
              Fragmentation |-> Ratio(5, 100), DedupRatio |-> Ratio(100, 100),
              Health |-> S_ONLINE, ReadOnly |-> FALSE]
      [] line = G_b ->
             [Name |-> N_b, Size |-> 20, Allocated |-> 0, Free |-> 20,
              Fragmentation |-> NaN, DedupRatio |-> Ratio(150, 100),
              Health |-> S_DEGRADED, ReadOnly |-> TRUE]
      [] line = G_c ->
             [Name |-> N_c, Size |-> 8, Allocated |-> 8, Free |-> 0,
              Fragmentation |-> Ratio(150, 100), DedupRatio |-> Ratio(2, 1),
              Health |-> S_FAULTED, ReadOnly |-> FALSE]

\* C16: for a well-formed pool listing parsePools returns no error and one
\* record per non-blank line, in input order, each mapping the 8 columns by
\* position (health upper-cased, read-only true iff the field is "on").
C16_PoolsMappedByPosition ==
    (ParserReturned("parsePools") /\ \A i \in DOMAIN DataLines :
                                    DataLines[i] \in GoodPoolLines \cup {<<>>}) =>
        /\ ~parseRet.err
        /\ Len(parseRet.v) = Len(NonBlank)
        /\ \A i \in 1..Len(NonBlank) : parseRet.v[i] = PoolOf(NonBlank[i])

\* two well-formed lines, the second with lower-case health and readonly on
C16_Witness ==
    /\ ParserReturned("parsePools")
    /\ parseData = Join(<<G_a, G_b>>, NL)
    /\ Len(parseRet.v) = 2
    /\ parseRet.v[2].Health = S_DEGRADED
    /\ parseRet.v[2].ReadOnly

\* C17: in every record parsePools returns the fragmentation is NaN exactly
\* when the field is "-", and otherwise is the field's integer N divided by
\* 100 and lies in [0,1].
C17_FragmentationInUnitRange ==
    (ParserReturned("parsePools") /\ ~parseRet.err) =>
        \A i \in 1..Len(parseRet.v) :
            LET f == Split(NonBlank[i], TAB)[5]
                frag == parseRet.v[i].Fragmentation
            IN  IF f = S_dash THEN IsNaN(frag)
                ELSE /\ ~IsNaN(frag)
                     /\ RatEq(frag, Ratio(DigitsVal(f), 100))
                     /\ RatLeq(Zero, frag)
                     /\ RatLeq(frag, Ratio(1, 1))

\* C20: for the empty text and for texts of whitespace and newlines only,
\* parsePools and parseDatasets return an empty list and no error, and
\* parseScanStatuses returns an empty list.
C20_BlankInputEmptyList ==
    (parsePc = "done" /\ \A i \in 1..Len(parseData) : parseData[i] \in Space) =>
        parseRet = [v |-> <<>>, err |-> FALSE]

\* parseDatasets was given a space and a newline
C20_Witness ==
    /\ ParserReturned("parseDatasets")
    /\ parseData = <<" ", "\n">>
    /\ parseRet = [v |-> <<>>, err |-> FALSE]
\* C21: for every dataset line parseDatasets accepts, ShareNFS (ShareSMB) is
\* false exactly when the sharenfs (sharesmb) field is "off" or "-"; every other
\* string, the empty one and other casings included, gives true.
C21_ShareOffOrDashOnly ==
    (ParserReturned("parseDatasets") /\ ~parseRet.err) =>
        /\ Len(parseRet.v) <= Len(NonBlank)
        /\ \A i \in 1..Len(parseRet.v) :
              LET f == Split(NonBlank[i], TAB)
              IN  /\ parseRet.v[i].ShareNFS = (f[6] \notin {S_off, S_dash})
                  /\ parseRet.v[i].ShareSMB = (f[7] \notin {S_off, S_dash})

\* sharenfs "OFF" and sharesmb "Off" are enabled, an empty sharenfs is
\* enabled, "-" and "off" are not
C21_Witness ==
    /\ ParserReturned("parseDatasets")
    /\ parseData = Join(<<GD_deep, GD_root>>, NL)
    /\ ~parseRet.err
    /\ parseRet.v[1].ShareNFS /\ parseRet.v[1].ShareSMB
    /\ parseRet.v[2].ShareNFS /\ ~parseRet.v[2].ShareSMB

\* C22: in every record parseDatasets returns, Pool is the part of Name before
\* the first "/", or the whole Name when it has none; Pool never contains "/"
\* and is a prefix of Name.
C22_PoolIsNameUpToFirstSlash ==
    (ParserReturned("parseDatasets") /\ ~parseRet.err) =>
        \A i \in 1..Len(parseRet.v) :
            LET name == parseRet.v[i].Name
                pool == parseRet.v[i].Pool
            IN  /\ \A j \in 1..Len(pool) : pool[j] # "/"
                /\ Len(pool) <= Len(name)
                /\ pool = SubSeq(name, 1, Len(pool))
                /\ IF \E j \in 1..Len(name) : name[j] = "/"
                   THEN name[Len(pool) + 1] = "/"
                   ELSE pool = name

\* a name with two slashes gives the part before the first, a name that
\* starts with "/" gives the empty pool
C22_Witness ==
    /\ ParserReturned("parseDatasets")
    /\ parseData = Join(<<GD_deep, GD_root>>, NL)
    /\ ~parseRet.err
    /\ parseRet.v[1].Pool = <<"a">>
    /\ parseRet.v[2].Pool = <<>>
    /\ parseRet.v[2].Name = <<"/", "x">>

HeaderName(h) == poolNameRe(Lines[h]).g

\* the section that starts at header line h has a line containing "scan:"
SectionHasScanLine(h) ==
    \E a \in 1..Len(Lines) : a > h /\ SameSection(h, a) /\ Contains(Lines[a], S_scan)

\* the records of the section that is current have not grown since its header
NoRecordYet ==
    LET prev == PoolHeaders \cap Consumed
    IN  prev # {} /\ Len(statuses) = Len(scanAfter(Lines, SetMax(prev)).statuses)

LastHeaderName == HeaderName(SetMax(PoolHeaders \cap Consumed))

\* in the returned list every section has its records, named after its header,
\* in header order; a section with no "scan:" line has one no-active-scan record
C27_Final ==
    scanPc = "done" =>
        /\ PoolHeaders = {} => statuses = <<>>
        /\ PoolHeaders # {} =>
              Len(scanAfter(Lines, SetMin(PoolHeaders)).statuses) = 0
        /\ \A h \in PoolHeaders :
              LET R == SectionRecords(h)
              IN  /\ R # {}
                  /\ \A i \in R : statuses[i].Pool = HeaderName(h)
                  /\ ~SectionHasScanLine(h) =>
                        /\ Cardinality(R) = 1
                        /\ statuses[SetMin(R)] = ScanStatus(HeaderName(h))

\* lines before the first pool header produce nothing
C27_BeforeHeader ==
    (scanPc = "loop" /\ PoolHeaders \cap Consumed = {}) => statuses = <<>>

\* reading a header appends the outgoing section's record, if it has none,
\* in the step that makes the new pool current
C27_CloseOnHeader ==
    (scanPc = "loop" /\ lineIdx' = lineIdx + 1 /\ lineIdx \in PoolHeaders) =>
        /\ currentPool' = HeaderName(lineIdx)
        /\ statuses' = IF NoRecordYet
                       THEN Append(statuses, ScanStatus(LastHeaderName))
                       ELSE statuses

\* end of input does the same for the last section
C27_CloseAtEnd ==
    (scanPc = "loop" /\ scanPc' = "done") =>
        statuses' = IF NoRecordYet
                    THEN Append(statuses, ScanStatus(LastHeaderName))
                    ELSE statuses

\* C27: a pool header read while the current section has no record appends a
\* no-active-scan record for the outgoing pool before the new pool becomes
\* current, and end of input does the same for the last pool; lines before
\* the first header produce nothing; records are in header order.
C27_ClosesSectionsInOrder ==
    /\ [](C27_Final /\ C27_BeforeHeader)
    /\ [][C27_CloseOnHeader /\ C27_CloseAtEnd]_vars

\* a "scan:" line before any header, then two headers without scan lines
C27_Witness ==
    /\ scanPc = "done"
    /\ data = Join(<<L_none, L_poolA, L_poolB>>, NL)
    /\ statuses = <<ScanStatus(<<"a">>), ScanStatus(<<"b">>)>>

\* C28: a percentage line changes only a record of the pool section it is
\* in: once a later pool header has been read, the records emitted up to that
\* header stay as they were, also when two sections carry the same pool name
\* and the later one has no scan line.
C28_EarlierSectionsFrozen ==
    scanPc \in {"loop", "done"} =>
        \A n \in PoolHeaders \cap Consumed :
            LET emitted == scanAfter(Lines, n).statuses
            IN  /\ Len(emitted) <= Len(statuses)
                /\ SubSeq(statuses, 1, Len(emitted)) = emitted

\* what parsePools makes of a line that stands between two other lines
PoolLineAsMiddle(l) == parsePools(Join(<<G_a, l, G_a>>, NL))

DatasetLineAsMiddle(l) == parseDatasets(Join(<<GD_fs, l, GD_fs>>, NL))

\* C29: in parsePools and parseDatasets a line is accepted or rejected, and
\* yields its record, independently of its position: as first, last or only
\* line it has the outcome it has as a middle line.
C29_PositionIndependent ==
    /\ (ParserReturned("parsePools") /\ TrimSpace(parseData) # <<>>) =>
          /\ parseRet.err = \E i \in DOMAIN NonBlank : PoolLineAsMiddle(NonBlank[i]).err
          /\ ~parseRet.err =>
                /\ Len(parseRet.v) = Len(NonBlank)
                /\ \A i \in DOMAIN NonBlank :
                      parseRet.v[i] = PoolLineAsMiddle(NonBlank[i]).v[2]
    /\ (ParserReturned("parseDatasets") /\ TrimSpace(parseData) # <<>>) =>
          /\ parseRet.err = \E i \in DOMAIN NonBlank : DatasetLineAsMiddle(NonBlank[i]).err
          /\ ~parseRet.err =>
                /\ Len(parseRet.v) = Len(NonBlank)
                /\ \A i \in DOMAIN NonBlank :
                      parseRet.v[i] = DatasetLineAsMiddle(NonBlank[i]).v[2]

AllFetchesSucceeded ==
    /\ pc = "done"
    /\ PoolsSucceeded
    /\ ~FetchFailed("ds")
    /\ ~FetchFailed("scan")

\* C24: the scrape-duration sample of a Collect call is the time from the
\* start of Collect to the completion of the dataset, scan-status and service
\* fetches.
C24_DurationCoversAllFetches ==
    (pc = "done" /\ PoolsSucceeded) =>
        Emitted({"scrapeDuration"}) =
            <<Metric("scrapeDuration", Float(now - start), <<>>)>>

\* the records of the pool listing a successful GetPools returned
PoolsListed == PoolListings[MainLog[1].out].v

\* the health samples sent for the pool named n, in order
HealthSamples(n) ==
    SelectSeq(ch, LAMBDA m : m.desc = "poolHealth" /\ m.labels[1] = n)

\* C25: every pool's health is one of the six enumerated states, so of the
\* six health samples Collect sends for a pool exactly one has value 1, the
\* one labelled with the pool's state.
C25_ExactlyOneHealthState ==
    (pc \in {"wait", "done"} /\ PoolsSucceeded) =>
        \A i \in 1..Len(PoolsListed) :
            LET hs == HealthSamples(PoolsListed[i].Name)
                on == {k \in 1..Len(hs) : hs[k].value = Float(1)}
            IN  /\ Len(hs) = 6
                /\ Cardinality(on) = 1
                /\ \A k \in on : hs[k].labels[2] = ToLower(PoolsListed[i].Health)

\* P, D, S of a scrape, and the number of scan records
CountP == Len(PoolsListed)

CountD == Len(DatasetListings[calls["ds"][1].out].v)

CountS == Cardinality({k \in DOMAIN CollectorServices : HasExisting(k)})

CountScans == Len(ScanListings[calls["scan"][1].out])

C30_OneUpOneDurationUpFirst ==
    /\ pc \in {"idle", "getPools"} => ch = <<>>
    /\ pc \in {"wait", "done"} =>
          /\ Len(Emitted({"up"})) = 1
          /\ Len(Emitted({"scrapeDuration"})) = 1
    /\ \A i \in 1..Len(ch) :
          ch[i].desc \in PoolDescs \cup OptionalDescs =>
              \E j \in 1..(i - 1) : ch[j].desc = "up"

\* a successful pool fetch, a failed dataset fetch and scan samples: up is
\* the second sample sent, after the scrape duration and before the rest
C30_Witness ==
    /\ pc = "done"
    /\ PoolsSucceeded
    /\ FetchFailed("ds")
    /\ Emitted(PoolDescs) # <<>>
    /\ Emitted(ScanDescs) # <<>>
    /\ ch[1].desc = "scrapeDuration"
    /\ ch[2].desc = "up"
    /\ Len(Emitted({"up"})) = 1

====
